---- MODULE Spec2Model ----
(***************************************************************************)
(* Model of the "Manual Like Exchange API" (src/main.py).                  *)
(*                                                                         *)
(* The store is the SQLite database shared by all handlers: the tables     *)
(* users and requests.  Every handler is a sequence of db_execute calls;   *)
(* db_execute takes the process-wide DB_LOCK, so one db_execute call is    *)
(* one atomic step, and the steps of concurrently running handlers         *)
(* interleave freely.  The code a handler runs between two db_execute      *)
(* calls only touches the handler's local variables; it is executed        *)
(* together with the db_execute call that precedes it.  SpecLocked makes   *)
(* the taking of DB_LOCK a step of its own, to follow the threads that     *)
(* wait for it.                                                            *)
(***************************************************************************)
EXTENDS Integers, Sequences, FiniteSets

\* ---------------------------------------------------------------- bounds
NThreads == 2
MaxTg == 3
MaxRequests == 1
MaxClock == 1
MaxBalance == 2
MinBalance == 1
MaxListed == 2

\* ------------------------------------------------------ program constants
MinPoints == 1
MaxPoints == 100

Threads == 1..NThreads
TgIds == 1..MaxTg

\* SQL NULL of an INTEGER column (AUTOINCREMENT ids start at 1)
NULL == 0
\* SQL NULL of a TEXT column
NullText == <<>>

\* ---------------------------------------------------------------- inputs
\* telegram ids that post requests and receive admin adjustments
Owners == {1}
\* payload.points of /request/create, before validation
PointsInputs == {0, 1, 2, 101}
\* points of /admin/add_points: any integer
Deltas == {-1, 2}
\* secret of /admin/add_points: the expected one and a wrong one
Secrets == {"CHANGE_THIS_SECRET", "wrong"}
\* payload.region: strings over a small alphabet
Regions == {<<"i", "N">>}
\* payload.claim_proof_url, as the string str() gives
Proofs == {<<"u">>}
\* payload.username, an Optional[str]: None (the default), or a string
NoName == [some |-> FALSE, str |-> <<>>]
Usernames == {NoName, [some |-> TRUE, str |-> <<"a">>]}

\* users, requests: the two tables, a row's id being its position
\* th: per thread, the running handler's payload, locals and position
\* now: the wall clock, in microseconds after a whole second
\* debits, credits: history variables; per request, how many times its
\*   stake has been debited from the owner and credited to a claimer
\* base: history variable; the store when the followed batch started
\* mode: how the calls arrive ("free", "batch", "alone" or "serial"), or
\*   "locked" where taking DB_LOCK is a step of its own
\* lock: the thread that holds DB_LOCK, or 0
\* granted: history variable; the sum of the points added by the
\*   admin_add_points calls that succeeded
VARIABLES users, requests, th, now, debits, credits, base, mode, lock,
          granted

vars ==
    <<users, requests, th, now, debits, credits, base, mode, lock, granted>>

\* ------------------------------------------------------- pure functions

\* str.upper() on one character of the alphabet
UpperChar(ch) ==
    CASE ch = "i" -> "I"
      [] ch = "n" -> "N"
      [] OTHER -> ch

\* str.upper()
Upper(s) ==
    [i \in 1..Len(s) |-> UpperChar(s[i])]

\* datetime.isoformat() of the clock reading n (microseconds after a whole
\* second): the fraction is omitted when it is zero
IsoFormat(n) ==
    IF n = 0 THEN <<"T">> ELSE <<"T", n>>

\* x or "" on an Optional[str]: None and the empty string give ""
OrEmpty(o) ==
    IF o.some /\ o.str # <<>> THEN o.str ELSE <<>>

\* SELECT id FROM users WHERE telegram_id = tg: the id, or NULL for no row
\* (telegram_id is UNIQUE, ids are the insertion positions)
UserIdOf(us, tg) ==
    IF \E i \in 1..Len(us) : us[i].telegram_id = tg
    THEN CHOOSE i \in 1..Len(us) : us[i].telegram_id = tg
    ELSE NULL

\* ---------------------------------------------------------- thread state
Idle ==
    [pc |-> "idle", op |-> "none", tg |-> 0, username |-> NoName,
     rid |-> 0, points |-> 0,
     region |-> NullText, proof |-> NullText, secret |-> "",
     owner_id |-> 0, claimer_id |-> 0, claimed_by |-> 0,
     points_requested |-> 0, created_at |-> NullText, new_rid |-> 0,
     rows |-> <<>>, result |-> "none"]

\* a handler returns or raises: only the payload and the result remain
Done(c, res) ==
    [Idle EXCEPT !.pc = "done", !.op = c.op, !.tg = c.tg,
                 !.username = c.username, !.rid = c.rid,
                 !.points = c.points, !.region = c.region,
                 !.proof = c.proof, !.secret = c.secret,
                 !.new_rid = c.new_rid, !.rows = c.rows, !.result = res]


\* ------------------------------------------------------------- handlers
\* Each operator is one db_execute call of a handler together with the
\* local code that follows it, as a function of the store db, the handler's
\* local state c and the clock reading clk; it yields the new store and the
\* new local state.

Store(us, rs) ==
    [users |-> us, requests |-> rs]

\* the lookup that stores the caller's name on a user it finds
register_select_rename(db, c, clk) ==
    LET id == UserIdOf(db.users, c.tg) IN
    IF id # NULL
    THEN [db |-> Store([db.users EXCEPT ![id].username = OrEmpty(c.username)],
                       db.requests),
          c |-> Done(c, "exists")]
    ELSE [db |-> db, c |-> [c EXCEPT !.pc = "register_insert"]]

\* register: SELECT id FROM users WHERE telegram_id = ?
register_select(db, c, clk) ==
    [db |-> db,
     c |-> IF UserIdOf(db.users, c.tg) # NULL
           THEN Done(c, "exists")
           ELSE [c EXCEPT !.pc = "register_insert"]]

\* register: INSERT INTO users; telegram_id is UNIQUE, so the insert of a
\* telegram_id that is present raises sqlite3.IntegrityError
register_insert(db, c, clk) ==
    IF UserIdOf(db.users, c.tg) # NULL
    THEN [db |-> db, c |-> Done(c, "IntegrityError")]
    ELSE [db |-> Store(Append(db.users,
                              [telegram_id |-> c.tg,
                               username |-> OrEmpty(c.username),
                               points |-> 0]),
                       db.requests),
          c |-> Done(c, "created")]

\* create_request: validation of CreateRequestIn, then
\* SELECT id, points FROM users WHERE telegram_id = ?
create_select(db, c, clk) ==
    LET id == UserIdOf(db.users, c.tg) IN
    [db |-> db,
     c |-> IF c.points < MinPoints \/ c.points > MaxPoints
           THEN Done(c, "InvalidAmount")
           ELSE IF id = NULL
           THEN Done(c, "NotRegistered")
           ELSE IF db.users[id].points < c.points
           THEN Done(c, "InsufficientFunds")
           ELSE [c EXCEPT !.pc = "create_insert", !.owner_id = id,
                          !.created_at = IsoFormat(clk)]]

\* create_request: INSERT INTO requests (..., status 'open', ...)
create_insert(db, c, clk) ==
    [db |-> Store(db.users,
                  Append(db.requests,
                         [owner_id |-> c.owner_id,
                          region |-> Upper(c.region),
                          points_requested |-> c.points,
                          status |-> "open",
                          created_at |-> c.created_at,
                          claimed_by |-> NULL,
                          claim_proof_url |-> NullText,
                          completed_at |-> NullText])),
     c |-> [c EXCEPT !.pc = "create_update",
                     !.new_rid = Len(db.requests) + 1]]

\* the debit with a fixed amount in place of payload.points
create_update_unit(db, c, clk) ==
    [db |-> Store([db.users EXCEPT ![c.owner_id].points = @ - 1],
                  db.requests),
     c |-> Done(c, "ok")]

\* create_request: UPDATE users SET points = points - ? WHERE id = ?
create_update(db, c, clk) ==
    [db |-> Store([db.users EXCEPT ![c.owner_id].points = @ - c.points],
                  db.requests),
     c |-> Done(c, "ok")]

\* claim: SELECT id, status, owner_id FROM requests WHERE id = ?
claim_select_request(db, c, clk) ==
    [db |-> db,
     c |-> IF c.rid \notin 1..Len(db.requests)
           THEN Done(c, "NotFound")
           ELSE IF db.requests[c.rid].status # "open"
           THEN Done(c, "InvalidState")
           ELSE [c EXCEPT !.pc = "claim_select_user",
                          !.owner_id = db.requests[c.rid].owner_id]]

\* the lookup of the claimer without the comparison with the owner
claim_select_user_any(db, c, clk) ==
    LET id == UserIdOf(db.users, c.tg) IN
    [db |-> db,
     c |-> IF id = NULL
           THEN Done(c, "NotRegistered")
           ELSE [c EXCEPT !.pc = "claim_update", !.claimer_id = id]]

\* claim: SELECT id FROM users WHERE telegram_id = ?
claim_select_user(db, c, clk) ==
    LET id == UserIdOf(db.users, c.tg) IN
    [db |-> db,
     c |-> IF id = NULL
           THEN Done(c, "NotRegistered")
           ELSE IF id = c.owner_id
           THEN Done(c, "SelfClaim")
           ELSE [c EXCEPT !.pc = "claim_update", !.claimer_id = id]]

\* the update without the claimed_by column
claim_update_status_only(db, c, clk) ==
    [db |-> Store(db.users,
                  [db.requests EXCEPT ![c.rid].status = "claimed"]),
     c |-> Done(c, "ok")]

\* claim: UPDATE requests SET status = 'claimed', claimed_by = ? WHERE id = ?
claim_update(db, c, clk) ==
    [db |-> Store(db.users,
                  [db.requests EXCEPT ![c.rid].status = "claimed",
                                      ![c.rid].claimed_by = c.claimer_id]),
     c |-> Done(c, "ok")]

\* confirm: SELECT id, status, claimed_by, owner_id, points_requested
\* FROM requests WHERE id = ?
confirm_select_request(db, c, clk) ==
    [db |-> db,
     c |-> IF c.rid \notin 1..Len(db.requests)
           THEN Done(c, "NotFound")
           ELSE IF db.requests[c.rid].status # "claimed"
           THEN Done(c, "InvalidState")
           ELSE [c EXCEPT !.pc = "confirm_select_user",
                          !.claimed_by = db.requests[c.rid].claimed_by,
                          !.owner_id = db.requests[c.rid].owner_id,
                          !.points_requested =
                              db.requests[c.rid].points_requested]]

\* the lookup of the confirming user that completes the request before
\* refusing a user who is not the claimer
confirm_select_user_marks(db, c, clk) ==
    LET id == UserIdOf(db.users, c.tg) IN
    IF id = NULL
    THEN [db |-> db, c |-> Done(c, "NotRegistered")]
    ELSE IF id # c.claimed_by
    THEN [db |-> Store(db.users,
                       [db.requests EXCEPT ![c.rid].status = "completed"]),
          c |-> Done(c, "Forbidden")]
    ELSE [db |-> db,
          c |-> [c EXCEPT !.pc = "confirm_update", !.claimer_id = id]]

\* confirm: SELECT id FROM users WHERE telegram_id = ?
confirm_select_user(db, c, clk) ==
    LET id == UserIdOf(db.users, c.tg) IN
    [db |-> db,
     c |-> IF id = NULL
           THEN Done(c, "NotRegistered")
           ELSE IF id # c.claimed_by
           THEN Done(c, "Forbidden")
           ELSE [c EXCEPT !.pc = "confirm_update", !.claimer_id = id]]

\* confirm: UPDATE requests SET status = 'completed', claim_proof_url = ?,
\* completed_at = ? WHERE id = ?
confirm_update(db, c, clk) ==
    [db |-> Store(db.users,
                  [db.requests EXCEPT ![c.rid].status = "completed",
                                      ![c.rid].claim_proof_url = c.proof,
                                      ![c.rid].completed_at = IsoFormat(clk)]),
     c |-> [c EXCEPT !.pc = "confirm_credit"]]

\* the credit given to the owner in place of the claimer
confirm_credit_owner(db, c, clk) ==
    [db |-> Store([db.users EXCEPT ![c.owner_id].points =
                                       @ + c.points_requested],
                  db.requests),
     c |-> Done(c, "ok")]

\* confirm: UPDATE users SET points = points + ? WHERE id = ?
confirm_credit(db, c, clk) ==
    [db |-> Store([db.users EXCEPT ![c.claimer_id].points =
                                       @ + c.points_requested],
                  db.requests),
     c |-> Done(c, "ok")]

\* comparison of two TEXT values as SQLite's BINARY collation does it: at
\* the first position where they differ, or the shorter one first when
\* it is a prefix of the other
TextLess(a, b) ==
    \E k \in 1..Len(b) :
        /\ \A j \in 1..(k - 1) : j <= Len(a) /\ a[j] = b[j]
        /\ \/ k > Len(a)
           \/ (k <= Len(a) /\ a[k] # b[k] /\ a[k] < b[k])

\* the ids of the rows WHERE status = 'open'
OpenIds(rs) ==
    {r \in 1..Len(rs) : rs[r].status = "open"}

\* rows is a sequence of ids ORDER BY created_at DESC
OrderedByCreatedAtDesc(rows, rs) ==
    \A i, j \in 1..Len(rows) :
        i < j => ~TextLess(rs[rows[i]].created_at, rs[rows[j]].created_at)

\* the results SQLite may give for SELECT ... FROM requests WHERE status =
\* 'open' ORDER BY created_at DESC, as sequences of ids: every open row
\* once, by created_at descending; the query names no other sort key, and
\* SQL leaves the order of rows with equal sort keys to the engine
ListResults(rs) ==
    LET n == Cardinality(OpenIds(rs)) IN
    {rows \in [1..n -> OpenIds(rs)] :
        /\ \A i, j \in 1..n : i # j => rows[i] # rows[j]
        /\ OrderedByCreatedAtDesc(rows, rs)}

\* list_open_requests: its single SELECT; c.rows is the result the engine
\* gives, which the handler returns row by row
list_select(db, c, clk) ==
    [db |-> db, c |-> Done(c, "ok")]

\* admin_add_points: the secret check, then
\* SELECT id FROM users WHERE telegram_id = ?
admin_select(db, c, clk) ==
    [db |-> db,
     c |-> IF c.secret # "CHANGE_THIS_SECRET"
           THEN Done(c, "Unauthorized")
           ELSE IF UserIdOf(db.users, c.tg) = NULL
           THEN Done(c, "NotFound")
           ELSE [c EXCEPT !.pc = "admin_update"]]

\* admin_add_points: UPDATE users SET points = points + ? WHERE
\* telegram_id = ?
admin_update(db, c, clk) ==
    [db |-> Store([i \in 1..Len(db.users) |->
                      IF db.users[i].telegram_id = c.tg
                      THEN [db.users[i] EXCEPT !.points = @ + c.points]
                      ELSE db.users[i]],
                  db.requests),
     c |-> Done(c, "ok")]

\* the next db_execute call of a running handler
Exec(db, c, clk) ==
    CASE c.pc = "register_select" -> register_select(db, c, clk)
      [] c.pc = "register_insert" -> register_insert(db, c, clk)
      [] c.pc = "create_select" -> create_select(db, c, clk)
      [] c.pc = "create_insert" -> create_insert(db, c, clk)
      [] c.pc = "create_update" -> create_update(db, c, clk)
      [] c.pc = "claim_select_request" -> claim_select_request(db, c, clk)
      [] c.pc = "claim_select_user" -> claim_select_user(db, c, clk)
      [] c.pc = "claim_update" -> claim_update(db, c, clk)
      [] c.pc = "confirm_select_request" -> confirm_select_request(db, c, clk)
      [] c.pc = "confirm_select_user" -> confirm_select_user(db, c, clk)
      [] c.pc = "confirm_update" -> confirm_update(db, c, clk)
      [] c.pc = "confirm_credit" -> confirm_credit(db, c, clk)
      [] c.pc = "list_select" -> list_select(db, c, clk)
      [] c.pc = "admin_select" -> admin_select(db, c, clk)
      [] c.pc = "admin_update" -> admin_update(db, c, clk)
      [] OTHER -> [db |-> db, c |-> c]


\* ------------------------------------------------------ state machine

\* no batch of calls is being followed
NoBase ==
    [on |-> FALSE, users |-> <<>>, requests |-> <<>>]

\* the state after init_db() on a fresh database file: both tables empty,
\* no handler running.  mode says how the calls arrive and what is kept of
\* them; it never changes.
Start(m) ==
    /\ users = <<>>
    /\ requests = <<>>
    /\ th = [t \in Threads |-> Idle]
    /\ now = 0
    /\ debits = <<>>
    /\ credits = <<>>
    /\ base = NoBase
    /\ mode = m
    /\ lock = 0
    /\ granted = 0

\* the handlers run freely, any number of calls per thread, and their
\* responses are not kept
Init ==
    Start("free")

\* the calls come in batches of at most one call per thread, each batch
\* starting when no handler runs; the store at the start of the batch
\* (base) and the response of every call of the batch are kept until the
\* next batch starts
InitBatch ==
    Start("batch")

\* the calls come one at a time, each starting when no handler runs, all
\* served by the first thread; the store at the start of the call (base)
\* and its response are kept until the next call starts
InitAlone ==
    Start("alone")

\* the calls come one at a time as in InitAlone, while the clock runs and
\* up to MaxListed requests are posted
InitSerial ==
    Start("serial")

\* the handlers run freely as in Init, and a db_execute call is two steps:
\* taking DB_LOCK, for which the thread waits while another one holds it,
\* and running the statement up to the release of the lock
InitLocked ==
    Start("locked")

Running(t) ==
    th[t].pc \notin {"idle", "done"}

\* the responses of the calls are kept
Followed ==
    mode \in {"batch", "alone", "serial"}

Quiescent ==
    \A t \in Threads : ~Running(t)

RECURSIVE SumOver(_, _)
SumOver(S, f) ==
    IF S = {} THEN 0
    ELSE LET x == CHOOSE y \in S : TRUE IN f[x] + SumOver(S \ {x}, f)

\* points that running admin_add_points calls are about to add to tg, of
\* the sign of d
Pending(tg, d) ==
    SumOver(Threads,
            [t \in Threads |->
                IF th[t].pc = "admin_update" /\ th[t].tg = tg
                   /\ th[t].points * d > 0
                THEN th[t].points ELSE 0])

\* bound of the exploration: an admin call is started only when it keeps
\* the target's balance within -MinBalance..MaxBalance
AdminWithinBounds(tg, d) ==
    LET id == UserIdOf(users, tg) IN
    IF id = NULL THEN TRUE
    ELSE /\ users[id].points + Pending(tg, d) + d <= MaxBalance
         /\ users[id].points + Pending(tg, d) + d >= 0 - MinBalance

\* bound of the exploration: telegram ids are first registered in
\* increasing order (they are interchangeable labels), a name is given
\* only by a telegram id in Owners that registers again, and only where
\* the responses are followed, and where taking DB_LOCK is a step of its
\* own the last telegram id stays unregistered
RegisterWithinBounds(tg, un) ==
    /\ tg <= Len(users) + 1
    /\ un = NoName
          \/ (Followed /\ tg \in Owners /\ UserIdOf(users, tg) # NULL)
    /\ mode = "locked" => tg < MaxTg

\* bound of the exploration: a create_request call is started only while
\* requests holds fewer than MaxRequests rows (MaxListed rows where the
\* listing of the requests is followed)
CreateWithinBounds ==
    Len(requests) < IF mode = "serial" THEN MaxListed ELSE MaxRequests

\* what is kept of a handler's local state: the response of a finished
\* handler is kept only while batches are followed
Kept(c) ==
    IF c.pc = "done" /\ ~Followed THEN Idle ELSE c

\* the handler invoked with local state c0 gets to a db_execute call: the
\* checks made before the first one (the validation of CreateRequestIn,
\* the secret of admin_add_points) pass
ReachesDbExecute(c0) ==
    CASE c0.pc = "create_select" ->
            c0.points >= MinPoints /\ c0.points <= MaxPoints
      [] c0.pc = "admin_select" -> c0.secret = "CHANGE_THIS_SECRET"
      [] OTHER -> TRUE

\* a handler is invoked on thread t with local state c0 and runs up to the
\* end of its first db_execute call; where taking DB_LOCK is a step of its
\* own, it runs up to its first db_execute call and waits there
Begin(t, c0) ==
    LET waits == mode = "locked" /\ ReachesDbExecute(c0)
        r == IF waits
             THEN [db |-> Store(users, requests), c |-> c0]
             ELSE Exec(Store(users, requests), c0, now)
        fresh == /\ Followed
                 /\ Quiescent
                 /\ Cardinality({u \in Threads : th[u].pc = "done"}) <= 1
    IN
    /\ CASE ~Followed -> th[t].pc = "idle"
         [] mode = "batch" -> fresh \/ (~Quiescent /\ th[t].pc = "idle")
         [] mode \in {"alone", "serial"} -> fresh /\ t = 1
    /\ users' = r.db.users
    /\ requests' = r.db.requests
    /\ th' = IF fresh
             THEN [u \in Threads |-> IF u = t THEN r.c ELSE Idle]
             ELSE [th EXCEPT ![t] = Kept(r.c)]
    /\ base' = IF fresh
               THEN [on |-> TRUE, users |-> users, requests |-> requests]
               ELSE base
    /\ UNCHANGED <<now, debits, credits, mode, lock, granted>>

\* thread t runs its next db_execute call, which is the one named pc
Advance(t, pc) ==
    LET r == Exec(Store(users, requests), th[t], now) IN
    /\ th[t].pc = pc
    /\ lock = IF mode = "locked" THEN t ELSE 0
    /\ lock' = 0
    /\ users' = r.db.users
    /\ requests' = r.db.requests
    /\ th' = [th EXCEPT ![t] = Kept(r.c)]
    /\ debits' = CASE pc = "create_insert" -> Append(debits, 0)
                   [] pc = "create_update" ->
                        [debits EXCEPT ![th[t].new_rid] = @ + 1]
                   [] OTHER -> debits
    /\ credits' = CASE pc = "create_insert" -> Append(credits, 0)
                    [] pc = "confirm_credit" ->
                         [credits EXCEPT ![th[t].rid] = @ + 1]
                    [] OTHER -> credits
    /\ granted' = IF pc = "admin_update" THEN granted + th[t].points
                   ELSE granted
    /\ UNCHANGED <<now, base, mode>>

register(t) ==
    \E tg \in TgIds, un \in Usernames :
        /\ RegisterWithinBounds(tg, un)
        /\ Begin(t, [Idle EXCEPT !.pc = "register_select", !.op = "register",
                              !.tg = tg, !.username = un])

RegisterInsert(t) ==
    Advance(t, "register_insert")

create_request(t) ==
    \E tg \in Owners, p \in PointsInputs, rg \in Regions :
        /\ CreateWithinBounds
        /\ Begin(t, [Idle EXCEPT !.pc = "create_select",
                                 !.op = "create_request", !.tg = tg,
                                 !.points = p, !.region = rg])

CreateInsert(t) ==
    Advance(t, "create_insert")

CreateUpdate(t) ==
    Advance(t, "create_update")

claim(t) ==
    \E tg \in TgIds, rid \in 1..MaxRequests :
        Begin(t, [Idle EXCEPT !.pc = "claim_select_request", !.op = "claim",
                              !.tg = tg, !.rid = rid])

ClaimSelectUser(t) ==
    Advance(t, "claim_select_user")

ClaimUpdate(t) ==
    Advance(t, "claim_update")

confirm(t) ==
    \E tg \in TgIds, rid \in 1..MaxRequests, pf \in Proofs :
        Begin(t, [Idle EXCEPT !.pc = "confirm_select_request",
                              !.op = "confirm", !.tg = tg, !.rid = rid,
                              !.proof = pf])

ConfirmSelectUser(t) ==
    Advance(t, "confirm_select_user")

ConfirmUpdate(t) ==
    Advance(t, "confirm_update")

ConfirmCredit(t) ==
    Advance(t, "confirm_credit")

\* (the rows are not followed where the responses are not)
list_open_requests(t) ==
    \E rows \in IF Followed THEN ListResults(requests) ELSE {<<>>} :
        Begin(t, [Idle EXCEPT !.pc = "list_select",
                              !.op = "list_open_requests", !.rows = rows])

admin_add_points(t) ==
    \E tg \in Owners, d \in Deltas, sec \in Secrets :
        /\ AdminWithinBounds(tg, d)
        /\ Begin(t, [Idle EXCEPT !.pc = "admin_select",
                                 !.op = "admin_add_points", !.tg = tg,
                                 !.points = d, !.secret = sec])

AdminUpdate(t) ==
    Advance(t, "admin_update")

\* the wall clock read by datetime.utcnow() advances
Tick ==
    /\ now < MaxClock
    /\ now' = now + 1
    /\ UNCHANGED <<users, requests, th, debits, credits, base, mode, lock,
                   granted>>

Step ==
    \/ \E t \in Threads : register(t)
    \/ \E t \in Threads : RegisterInsert(t)
    \/ \E t \in Threads : create_request(t)
    \/ \E t \in Threads : CreateInsert(t)
    \/ \E t \in Threads : CreateUpdate(t)
    \/ \E t \in Threads : claim(t)
    \/ \E t \in Threads : ClaimSelectUser(t)
    \/ \E t \in Threads : ClaimUpdate(t)
    \/ \E t \in Threads : confirm(t)
    \/ \E t \in Threads : ConfirmSelectUser(t)
    \/ \E t \in Threads : ConfirmUpdate(t)
    \/ \E t \in Threads : ConfirmCredit(t)
    \/ \E t \in Threads : list_open_requests(t)
    \/ \E t \in Threads : admin_add_points(t)
    \/ \E t \in Threads : AdminUpdate(t)

Next ==
    Step \/ Tick

\* with DB_LOCK: thread t, at a db_execute call, takes the lock, which is
\* free
Acquire(t) ==
    /\ mode = "locked"
    /\ Running(t)
    /\ lock = 0
    /\ lock' = t
    /\ UNCHANGED <<users, requests, th, now, debits, credits, base, mode,
                   granted>>

\* thread t, holding the lock, runs the statement of its db_execute call
\* and leaves the with block, which releases the lock, also when the
\* statement raises
DbExecute(t) ==
    /\ Running(t)
    /\ Advance(t, th[t].pc)

\* a step of the handler running on thread t
Run(t) ==
    Acquire(t) \/ DbExecute(t)

NextLocked ==
    \/ \E t \in Threads : register(t)
    \/ \E t \in Threads : create_request(t)
    \/ \E t \in Threads : list_open_requests(t)
    \/ \E t \in Threads : claim(t)
    \/ \E t \in Threads : confirm(t)
    \/ \E t \in Threads : admin_add_points(t)
    \/ \E t \in Threads : Acquire(t)
    \/ \E t \in Threads : DbExecute(t)

\* the handlers running freely, on any number of calls per thread
Spec ==
    Init /\ [][Next]_vars

\* the handlers running in batches
SpecBatch ==
    InitBatch /\ [][Step]_vars

\* the handlers running one at a time
SpecAlone ==
    InitAlone /\ [][Step]_vars

\* the handlers running one at a time, while the clock runs
SpecSerial ==
    InitSerial /\ [][Next]_vars

\* the handlers running freely with DB_LOCK taken in a step of its own,
\* every thread being scheduled again and again: a step of a running
\* handler that stays possible is eventually taken.  A thread blocked on
\* the lock can take no step, and threading.Lock promises no order among
\* the threads that wait for it.
SpecLocked ==
    InitLocked /\ [][NextLocked]_vars
               /\ \A t \in Threads : WF_vars(Run(t))


\* ------------------------------------------------------------ properties

Registered(us, tg) ==
    UserIdOf(us, tg) # NULL

\* thread t has finished a call of handler op in the batch being followed
Finished(t, op) ==
    base.on /\ th[t].pc = "done" /\ th[t].op = op

\* thread t has finished a call of handler op and no other thread has
\* called anything since the batch started: the call ran without
\* interference, from the store base
RanAlone(t, op) ==
    Finished(t, op) /\ \A u \in Threads \ {t} : th[u].pc = "idle"

\* C1: in every reachable state every user's point balance is >= 0
C1_BalanceNonNegative ==
    \A i \in 1..Len(users) : users[i].points >= 0

\* C2: two claim calls of one batch, by two different registered users
\* other than the owner, on the same request that is open when the batch
\* starts: exactly one succeeds and the other fails with InvalidState
C2_OneClaimWins ==
    \A t, u \in Threads :
        (/\ t # u
         /\ Finished(t, "claim") /\ Finished(u, "claim")
         /\ th[t].rid = th[u].rid
         /\ th[t].rid \in 1..Len(base.requests)
         /\ base.requests[th[t].rid].status = "open"
         /\ th[t].tg # th[u].tg
         /\ Registered(base.users, th[t].tg)
         /\ Registered(base.users, th[u].tg)
         /\ UserIdOf(base.users, th[t].tg) # base.requests[th[t].rid].owner_id
         /\ UserIdOf(base.users, th[u].tg) # base.requests[th[t].rid].owner_id)
        => \/ th[t].result = "ok" /\ th[u].result = "InvalidState"
           \/ th[t].result = "InvalidState" /\ th[u].result = "ok"

\* open -> claimed -> completed
Rank(status) ==
    CASE status = "open" -> 0
      [] status = "claimed" -> 1
      [] status = "completed" -> 2

\* C3: no step moves the status of a request backwards along
\* open -> claimed -> completed
C3_StatusForward ==
    [][\A r \in 1..Len(requests) :
          Rank(requests'[r].status) >= Rank(requests[r].status)]_vars

\* C4: the stake of a request is credited to a user balance at most once
C4_CreditedAtMostOnce ==
    \A r \in 1..Len(requests) : credits[r] <= 1

\* C5: two create_request calls of one batch by the same owner, whose
\* balance at the start of the batch covers each stake but not both, with
\* no other call in the batch: not both succeed, and the owner's balance
\* does not fall below zero
C5_DebitGuarded ==
    \A t, u \in Threads :
        (/\ t # u
         /\ Finished(t, "create_request") /\ Finished(u, "create_request")
         /\ \A w \in Threads \ {t, u} : th[w].pc = "idle"
         /\ th[t].tg = th[u].tg
         /\ Registered(base.users, th[t].tg)
         /\ th[t].points \in MinPoints..MaxPoints
         /\ th[u].points \in MinPoints..MaxPoints
         /\ base.users[UserIdOf(base.users, th[t].tg)].points >= th[t].points
         /\ base.users[UserIdOf(base.users, th[t].tg)].points >= th[u].points
         /\ base.users[UserIdOf(base.users, th[t].tg)].points
                < th[t].points + th[u].points)
        => /\ ~(th[t].result = "ok" /\ th[u].result = "ok")
           /\ users[UserIdOf(base.users, th[t].tg)].points >= 0

\* C6: in every state, which a concurrent reader may see, the stake of
\* every open request has been debited from its owner and the stake of
\* every completed request has been credited to its claimant
C6_NoPartialEffect ==
    \A r \in 1..Len(requests) :
        /\ requests[r].status = "open" => debits[r] >= 1
        /\ requests[r].status = "completed" => credits[r] >= 1


\* the first db_execute call of each handler
FirstPc(op) ==
    CASE op = "register" -> "register_select"
      [] op = "create_request" -> "create_select"
      [] op = "claim" -> "claim_select_request"
      [] op = "confirm" -> "confirm_select_request"
      [] op = "list_open_requests" -> "list_select"
      [] op = "admin_add_points" -> "admin_select"

\* the local state of a handler invoked with the payload of the call c
Invoke(c) ==
    [Idle EXCEPT !.pc = FirstPc(c.op), !.op = c.op, !.tg = c.tg,
                 !.username = c.username, !.rid = c.rid, !.points = c.points, !.region = c.region,
                 !.proof = c.proof, !.secret = c.secret, !.rows = c.rows]

\* the longest handler makes four db_execute calls
MaxSteps == 4

\* a handler run from local state c on the store db with no other handler
\* running: its db_execute calls one after the other
RECURSIVE RunAlone(_, _, _, _)
RunAlone(db, c, clk, n) ==
    IF c.pc = "done" \/ n = 0
    THEN [db |-> db, c |-> c]
    ELSE LET r == Exec(db, c, clk) IN RunAlone(r.db, r.c, clk, n - 1)

\* some order of the calls of the threads in S, run one at a time from the
\* store db, gives every call the response it got and ends in the
\* current store
RECURSIVE SerialOrderExists(_, _)
SerialOrderExists(db, S) ==
    IF S = {}
    THEN db = Store(users, requests)
    ELSE \E t \in S :
            LET r == RunAlone(db, Invoke(th[t]), now, MaxSteps) IN
            /\ r.c.pc = "done"
            /\ r.c.result = th[t].result
            /\ SerialOrderExists(r.db, S \ {t})

\* C7: when the calls of a batch have all returned, the store and the
\* responses are those of running the same calls one at a time, in some
\* order, from the store the batch started on
C7_Serializable ==
    (base.on /\ Quiescent)
        => SerialOrderExists(Store(base.users, base.requests),
                             {t \in Threads : th[t].pc = "done"})


LowerChars == {"i", "n"}

\* the preconditions of create_request hold for the call c on the store db
CanCreate(db, c) ==
    LET id == UserIdOf(db.users, c.tg) IN
    IF id = NULL THEN FALSE
    ELSE /\ c.points >= MinPoints
         /\ c.points <= MaxPoints
         /\ db.users[id].points >= c.points

\* C8: a create_request call that ran without interference succeeds
\* exactly when the owner is registered, 1 <= P <= 100 and the balance is
\* at least P; it then lowers the owner's balance by exactly P, changes no
\* other user, and adds exactly one request: open, unclaimed, with
\* points_requested = P and the region in uppercase
C8_CreateEffect ==
    \A t \in Threads :
        RanAlone(t, "create_request") =>
            LET c == th[t]
                id == UserIdOf(base.users, c.tg)
                n == Len(base.requests)
            IN
            /\ (c.result = "ok") <=> CanCreate(base, c)
            /\ c.result = "ok" =>
                 /\ users = [base.users EXCEPT ![id].points = @ - c.points]
                 /\ Len(requests) = n + 1
                 /\ \A r \in 1..n : requests[r] = base.requests[r]
                 /\ requests[n + 1].status = "open"
                 /\ requests[n + 1].claimed_by = NULL
                 /\ requests[n + 1].points_requested = c.points
                 /\ requests[n + 1].owner_id = id
                 /\ requests[n + 1].region = Upper(c.region)
                 /\ \A k \in 1..Len(requests[n + 1].region) :
                        requests[n + 1].region[k] \notin LowerChars
                 /\ requests[n + 1].claim_proof_url = NullText
                 /\ requests[n + 1].completed_at = NullText

\* a create_request with a stake of 2 has succeeded without interference
C8_Witness ==
    \E t \in Threads :
        /\ RanAlone(t, "create_request")
        /\ th[t].result = "ok"
        /\ th[t].points = 2
        /\ \E k \in 1..Len(th[t].region) : th[t].region[k] \in LowerChars

\* C9: a claim that ran without interference on a request that was open,
\* by a registered user other than the owner, succeeds, sets status =
\* claimed and claimed_by = that user and changes nothing else (no balance,
\* not the request's owner or stake); a claim on a request that was
\* already claimed or completed when the batch started fails with
\* InvalidState
C9_ClaimEffect ==
    \A t \in Threads :
        (Finished(t, "claim") /\ th[t].rid \in 1..Len(base.requests)) =>
            LET c == th[t]
                rq == base.requests[c.rid]
                id == UserIdOf(base.users, c.tg)
            IN
            /\ rq.status # "open" => c.result = "InvalidState"
            /\ (/\ RanAlone(t, "claim")
                /\ rq.status = "open"
                /\ id # NULL
                /\ id # rq.owner_id)
               => /\ c.result = "ok"
                  /\ requests = [base.requests EXCEPT
                                    ![c.rid].status = "claimed",
                                    ![c.rid].claimed_by = id]
                  /\ users = base.users

\* a claim has succeeded without interference
C9_Witness ==
    \E t \in Threads :
        /\ RanAlone(t, "claim")
        /\ th[t].result = "ok"
        /\ base.requests[th[t].rid].status = "open"
        /\ requests[th[t].rid].claimed_by = UserIdOf(users, th[t].tg)

\* C10: a confirm that ran without interference on a claimed request, by
\* the recorded claimant, succeeds, sets status = completed, stores the
\* claim proof and a reading of the clock as completion timestamp, raises the claimant's balance
\* by exactly points_requested and changes nothing else; a confirm on a
\* request that was already completed fails with InvalidState, and run
\* without interference it changes nothing
C10_ConfirmEffect ==
    \A t \in Threads :
        (Finished(t, "confirm") /\ th[t].rid \in 1..Len(base.requests)) =>
            LET c == th[t]
                rq == base.requests[c.rid]
                id == UserIdOf(base.users, c.tg)
            IN
            /\ rq.status = "completed" =>
                 /\ c.result = "InvalidState"
                 /\ RanAlone(t, "confirm") =>
                        users = base.users /\ requests = base.requests
            /\ (/\ RanAlone(t, "confirm")
                /\ rq.status = "claimed"
                /\ id # NULL
                /\ id = rq.claimed_by)
               => /\ c.result = "ok"
                  /\ \E k \in 0..now :
                        requests = [base.requests EXCEPT
                                       ![c.rid].status = "completed",
                                       ![c.rid].claim_proof_url = c.proof,
                                       ![c.rid].completed_at = IsoFormat(k)]
                  /\ requests[c.rid].claim_proof_url # NullText
                  /\ requests[c.rid].completed_at # NullText
                  /\ users = [base.users EXCEPT
                                 ![id].points = @ + rq.points_requested]

\* a confirm of a request with a stake of 2 has succeeded without
\* interference
C10_Witness ==
    \E t \in Threads :
        /\ RanAlone(t, "confirm")
        /\ th[t].result = "ok"
        /\ base.requests[th[t].rid].status = "claimed"
        /\ base.requests[th[t].rid].points_requested = 2

\* C11: the owner never claims their own request: a claim by the owner of
\* the request never succeeds; on a request that is open when the batch
\* starts and with no other call in the batch it fails with SelfClaim and
\* leaves the store as it was; and in every state every request with
\* claimed_by set has claimed_by different from its owner
C11_NoSelfClaim ==
    /\ \A r \in 1..Len(requests) :
           requests[r].claimed_by # NULL =>
               requests[r].claimed_by # requests[r].owner_id
    /\ \A t \in Threads :
           (/\ Finished(t, "claim")
            /\ th[t].rid \in 1..Len(base.requests)
            /\ UserIdOf(base.users, th[t].tg) # NULL
            /\ UserIdOf(base.users, th[t].tg)
                   = base.requests[th[t].rid].owner_id)
           => /\ th[t].result \in {"SelfClaim", "InvalidState"}
              /\ (RanAlone(t, "claim")
                  /\ base.requests[th[t].rid].status = "open")
                 => /\ th[t].result = "SelfClaim"
                    /\ requests = base.requests
                    /\ users = base.users

\* the owner of an open request has tried to claim it and the call has
\* returned
C11_Witness ==
    \E t \in Threads :
        /\ RanAlone(t, "claim")
        /\ th[t].rid \in 1..Len(base.requests)
        /\ base.requests[th[t].rid].status = "open"
        /\ UserIdOf(base.users, th[t].tg)
               = base.requests[th[t].rid].owner_id
        /\ th[t].result = "SelfClaim"

\* C12: only the recorded claimant settles a request: whenever a confirm
\* completes a request, the user the confirm goes on to credit is the user
\* stored in the request's claimed_by at that moment
C12_CreditedIsClaimant ==
    [][\A t \in Threads :
          (th[t].pc = "confirm_update" /\ th'[t].pc = "confirm_credit")
              => requests'[th[t].rid].claimed_by = th[t].claimer_id]_vars

\* the local state of a register call with telegram id tg and name un
RegisterCall(tg, un) ==
    [Idle EXCEPT !.pc = "register_select", !.op = "register", !.tg = tg,
                 !.username = un]

\* the rows of us with telegram id tg
RowsOf(us, tg) ==
    {i \in 1..Len(us) : us[i].telegram_id = tg}

\* C13: register is idempotent.  A register call of a telegram id that
\* is registered when the call starts reports that the user exists and
\* leaves every user (balance and name) and every request as it was; and
\* from every store reached with no call running, two register calls with
\* the same telegram id, one after the other, under any names, end in the
\* store the first one ended in, with exactly one user of that telegram
\* id, the second call reporting that the user exists
C13_RegisterIdempotent ==
    /\ \A t \in Threads :
           (RanAlone(t, "register") /\ Registered(base.users, th[t].tg))
           => /\ th[t].result = "exists"
              /\ users = base.users
              /\ requests = base.requests
              /\ Cardinality(RowsOf(users, th[t].tg)) = 1
    /\ Quiescent =>
           \A tg \in TgIds, un1 \in Usernames, un2 \in Usernames :
               LET once == RunAlone(Store(users, requests),
                                    RegisterCall(tg, un1), now, MaxSteps)
                   twice == RunAlone(once.db, RegisterCall(tg, un2), now,
                                     MaxSteps)
               IN
               /\ once.c.result \in {"created", "exists"}
               /\ twice.c.result = "exists"
               /\ twice.db = once.db
               /\ Cardinality(RowsOf(twice.db.users, tg)) = 1

\* a user with a balance of 2 has registered again, under another name
C13_Witness ==
    \E t \in Threads :
        /\ RanAlone(t, "register")
        /\ th[t].result = "exists"
        /\ Registered(base.users, th[t].tg)
        /\ base.users[UserIdOf(base.users, th[t].tg)].points = 2
        /\ base.users[UserIdOf(base.users, th[t].tg)].username
               # OrEmpty(th[t].username)

\* C14: register never fails on a duplicate registration: every register
\* call returns created or exists, and when two register calls of one
\* batch carry the same telegram id, unknown when the batch starts, both
\* return created or exists and exactly one user of that telegram id
\* exists afterwards, with balance 0
C14_RegisterNeverFails ==
    /\ \A t \in Threads :
           Finished(t, "register") => th[t].result \in {"created", "exists"}
    /\ \A t, u \in Threads :
           (/\ t # u
            /\ Finished(t, "register") /\ Finished(u, "register")
            /\ th[t].tg = th[u].tg
            /\ ~Registered(base.users, th[t].tg))
           => /\ Cardinality(RowsOf(users, th[t].tg)) = 1
              /\ users[UserIdOf(users, th[t].tg)].points = 0

\* C15: after every step, every request has claimed_by unset exactly
\* when its status is open, and no step changes a claimed_by that is set
C15_ClaimedByImmutable ==
    [][\A r \in 1..Len(requests) :
          /\ (requests'[r].claimed_by = NULL)
                 <=> (requests'[r].status = "open")
          /\ requests[r].claimed_by # NULL
                 => requests'[r].claimed_by = requests[r].claimed_by]_vars

\* C16: in every state, every request has claim_proof_url set exactly
\* when its status is completed, and completed_at set exactly when its
\* status is completed
C16_ProofOnlyWhenCompleted ==
    \A r \in 1..Len(requests) :
        /\ (requests[r].claim_proof_url # NullText)
               <=> (requests[r].status = "completed")
        /\ (requests[r].completed_at # NullText)
               <=> (requests[r].status = "completed")

Successes == {"ok", "created", "exists"}

\* the errors each handler raises on a violated precondition
ErrorsOf(op) ==
    CASE op = "create_request" ->
            {"NotRegistered", "InvalidAmount", "InsufficientFunds"}
      [] op = "claim" ->
            {"NotFound", "InvalidState", "NotRegistered", "SelfClaim"}
      [] op = "confirm" ->
            {"NotFound", "InvalidState", "NotRegistered", "Forbidden"}
      [] op = "admin_add_points" -> {"Unauthorized", "NotFound"}
      [] OTHER -> {}

\* C18: a call that ran without interference and returned an error
\* returned one of the errors of its handler (create_request:
\* NotRegistered, InvalidAmount, InsufficientFunds; claim: NotFound,
\* InvalidState, NotRegistered, SelfClaim; confirm: NotFound,
\* InvalidState, NotRegistered, Forbidden; admin_add_points:
\* Unauthorized, NotFound) and left every user and every request as they
\* were when it started
C18_ErrorsChangeNothing ==
    \A t \in Threads :
        \A op \in {"register", "create_request", "list_open_requests",
                   "claim", "confirm", "admin_add_points"} :
            (RanAlone(t, op) /\ th[t].result \notin Successes)
            => /\ th[t].result \in ErrorsOf(op)
               /\ users = base.users
               /\ requests = base.requests

\* a registered user who is not the claimer has tried to confirm a
\* claimed request and has been refused
C18_Witness ==
    \E t \in Threads :
        /\ RanAlone(t, "confirm")
        /\ th[t].result = "Forbidden"
        /\ base.requests[th[t].rid].status = "claimed"
        /\ Registered(base.users, th[t].tg)

\* DB_LOCK is held only by a running handler: every db_execute call that
\* has ended, normally or in an exception, has released it
LockReleased ==
    lock # 0 => Running(lock)

\* while a handler runs, some running handler can take a step
NoDeadlock ==
    (\E t \in Threads : Running(t)) => \E t \in Threads : ENABLED Run(t)

TotalBalance(us) ==
    SumOver(1..Len(us), [i \in 1..Len(us) |-> us[i].points])

\* the sum of the stakes of the requests that are open or claimed
Escrow(rs) ==
    SumOver(1..Len(rs),
            [r \in 1..Len(rs) |->
                IF rs[r].status \in {"open", "claimed"}
                THEN rs[r].points_requested ELSE 0])

\* C20: points are conserved: in every state where no handler is
\* running, the sum of all balances plus the sum of points_requested of
\* the open and claimed requests equals the sum of the points added by
\* the admin_add_points calls that succeeded
C20_PointsConserved ==
    Quiescent => TotalBalance(users) + Escrow(requests) = granted

====
